---- MODULE Spec2Model ----
(***************************************************************************)
(* State-machine model of the StockPulse dashboard                         *)
(* (frontend/app/page.tsx, component Dashboard).                           *)
(*                                                                         *)
(* Time is counted in minutes since the epoch.  A calendar day is named by *)
(* its day number d; the date string "YYYY-MM-DD" of day d parses (JS      *)
(* `new Date(str)` of a date-only string) to UTC midnight, d * 1440.       *)
(* An optional value (`undefined` in the source) is the empty sequence,    *)
(* a present value x is <<x>>.                                             *)
(***************************************************************************)
EXTENDS Integers, Sequences, FiniteSets, TLC

VARIABLES
    tzOffset,       \* Date.prototype.getTimezoneOffset(), minutes (UTC - local)
    ticker,         \* useState("SPY")
    model,          \* useState("xgboost")
    horizon,        \* useState([14]), the single slider value horizon[0]
    referenceDate,  \* useState<Date | undefined>
    startDate,      \* useState<Date | undefined>
    showCI,         \* useState(false)
    loading,        \* useState(false)
    prediction,     \* useState<Prediction | null>
    history,        \* useState<HistoryItem[]>
    predInFlight,   \* the POST /api/predict requests awaiting a response (payloads)
    histInFlight,   \* the GET /api/history requests awaiting a response (tickers)
    consoleErrors,  \* parity of the number of console.error calls made so far
    lastClamp       \* which effect corrected a date when the dates last changed

vars == <<tzOffset, ticker, model, horizon, referenceDate, startDate, showCI,
          loading, prediction, history, predInFlight, histInFlight,
          consoleErrors, lastClamp>>

----------------------------------------------------------------------------
(* Bounds of the model *)

MaxDay == 2             \* history bars are dated within days 1..MaxDay
MaxHistInFlight == 1    \* history requests simultaneously awaiting a response
MaxRacing == 2          \* the same, where the order of the responses is studied
MaxPath == 2            \* longest forecast path in a response

----------------------------------------------------------------------------
(* Optional values *)

Undefined == <<>>

\* prediction is null until a response is stored.
Null == <<>>

Some(x) == <<x>>

IsSet(o) == o # Undefined

----------------------------------------------------------------------------
(* Dates *)

MinutesPerDay == 1440

\* Browser time zones: UTC-5, UTC, UTC+2 (getTimezoneOffset is UTC - local).
TimezoneOffsets == {300, 0, -120}

\* new Date("YYYY-MM-DD"): a date-only string is UTC midnight of that day.
ParseDate(d) == d * MinutesPerDay

\* date.toISOString().split('T')[0]: the UTC calendar day of an instant.
toISODate(t) == t \div MinutesPerDay

\* The local calendar day of an instant: what format(date, "MMM d, yyyy")
\* prints and what react-day-picker's startOfDay / isSameDay compare.
LocalDay(t) == (t - tzOffset) \div MinutesPerDay

\* The Date the Calendar hands to onSelect for a day cell: local midnight.
LocalMidnight(d) == d * MinutesPerDay + tzOffset

\* Days the user navigates to in a Calendar popover: the days of the
\* histories and the day before them.
CalendarDays == 0 .. MaxDay

----------------------------------------------------------------------------
(* The option lists of the controls *)

\* <SelectItem> values of the Asset selector, in document order.
TickerOptions == <<"SPY", "QQQ", "IWM", "DIA", "NVDA", "AAPL", "MSFT", "TSLA">>

\* The tickers the modelled user picks among: the first two options.
TickerChoices == {TickerOptions[1], TickerOptions[2]}

EngineOptionsRenamed == {"xgboost", "random_forest", "linear", "prophet"}

\* <SelectItem> values of the Engine selector.
EngineOptions == {"xgboost", "random_forest", "linear_regression", "prophet"}

\* <Slider min={1} max={60} step={1}>
SliderMin == 1

SliderMax == 60

\* Thumb positions the user drags or keys the slider towards; the positions
\* beyond either end are attempts to leave the track.
SliderPositions == {SliderMin - 1, SliderMin, 14, SliderMax, SliderMax + 1}

SliderValueNoUpperClamp(pos) == IF pos < SliderMin THEN SliderMin ELSE pos

\* The value the slider reports through onValueChange for a thumb position.
SliderValue(pos) ==
    IF pos < SliderMin THEN SliderMin
    ELSE IF pos > SliderMax THEN SliderMax
    ELSE pos

----------------------------------------------------------------------------
(* Values derived on every render *)

\* useMemo(() => history.length ? new Date(history[0].Date) : undefined)
minDate == IF Len(history) > 0 THEN Some(ParseDate(history[1].Date)) ELSE Undefined

\* useMemo(() => history.length ? new Date(history[history.length-1].Date) : undefined)
maxDate ==
    IF Len(history) > 0 THEN Some(ParseDate(history[Len(history)].Date)) ELSE Undefined

MinDateOf(h) == IF Len(h) > 0 THEN Some(ParseDate(h[1].Date)) ELSE Undefined

----------------------------------------------------------------------------
(* The effects that correct the dates *)

\* The first effect with setStartDate(minDate) made unconditional.
ClampToMinDateAlways(start, ref, min) ==
    IF ~IsSet(min) THEN [start |-> start, ref |-> ref, clamped |-> FALSE]
    ELSE [start |-> min,
          ref |-> IF IsSet(ref) /\ ref[1] < min[1] THEN min ELSE ref,
          clamped |-> TRUE]

\* useEffect(..., [minDate]): the values it passes to setStartDate and
\* setReferenceDate for the render values start, ref and min.
ClampToMinDate(start, ref, min) ==
    IF ~IsSet(min) THEN [start |-> start, ref |-> ref, clamped |-> FALSE]
    ELSE [start |-> IF ~IsSet(start) \/ start[1] < min[1] THEN min ELSE start,
          ref |-> IF IsSet(ref) /\ ref[1] < min[1] THEN min ELSE ref,
          clamped |-> \/ ~IsSet(start)
                      \/ start[1] < min[1]
                      \/ (IsSet(ref) /\ ref[1] < min[1])]

ClampReferenceToStartOff(start, ref) == ref

\* useEffect(..., [startDate, referenceDate]): the reference date after it.
ClampReferenceToStart(start, ref) ==
    IF IsSet(ref) /\ IsSet(start) /\ ref[1] < start[1] THEN start ELSE ref

\* The renders that follow a change of startDate or referenceDate: the
\* second effect runs, and runs once more after its own update (a no-op).
SettleDates(start, ref) ==
    LET r == ClampReferenceToStart(start, ref)
    IN [start |-> start,
        ref |-> ClampReferenceToStart(start, r),
        clamp |-> IF r # ref THEN "startDate" ELSE "none"]

\* The renders that follow setHistory(h): minDate is a new Date object, so the
\* first effect runs; the dates it changed then trigger the second one.
SettleHistory(start, ref, h) ==
    LET c == ClampToMinDate(start, ref, MinDateOf(h))
        r == ClampReferenceToStart(c.start, c.ref)
    IN [start |-> c.start,
        ref |-> r,
        clamp |-> IF r # c.ref THEN "startDate"
                  ELSE IF c.clamped THEN "minDate" ELSE "none"]

----------------------------------------------------------------------------
(* The request payload of fetchPrediction *)

\* payload.reference_date: the offset-adjusted date, as an ISO day.
PayloadReferenceDate(ref) ==
    IF IsSet(ref) THEN Some(toISODate(ref[1] - tzOffset)) ELSE Undefined

PayloadStartDateOmitted(start) == Undefined

\* payload.start_date: the offset-adjusted date, as an ISO day.
PayloadStartDate(start) ==
    IF IsSet(start) THEN Some(toISODate(start[1] - tzOffset)) ELSE Undefined

Payload ==
    [ticker |-> ticker,
     model |-> model,
     horizon |-> horizon,
     reference_date |-> PayloadReferenceDate(referenceDate),
     start_date |-> PayloadStartDate(startDate)]

----------------------------------------------------------------------------
(* What the backend can answer *)

RECURSIVE SortedSeqOf(_)
\* The ascending sequence of a finite set of day numbers.
SortedSeqOf(S) ==
    IF S = {} THEN <<>>
    ELSE LET m == CHOOSE x \in S : \A y \in S : x <= y
         IN <<m>> \o SortedSeqOf(S \ {m})

\* Close of every bar of the modelled histories.
Closes == {100}

\* GET /api/history: bars sorted ascending by date without duplicate dates
\* (the Bar Store contract), possibly none.
Histories ==
    {[i \in 1..Len(ds) |-> [Date |-> ds[i], Close |-> c]] :
        ds \in {SortedSeqOf(S) : S \in SUBSET (1..MaxDay)}, c \in Closes}

\* The close of the bars of ticker t: every ticker trades at a level of its
\* own, so that the bars tell which ticker they are of.
CloseOf(t) == 100 * (CHOOSE k \in 1..Len(TickerOptions) : TickerOptions[k] = t)

\* GET /api/history?ticker=t: the bars of ticker t, at least one.
HistoriesOf(t) ==
    {[i \in 1..Len(ds) |-> [Date |-> ds[i], Close |-> CloseOf(t)]] :
        ds \in {SortedSeqOf(S) : S \in (SUBSET (1..MaxDay)) \ {{}}}}

\* Days a forecast path can be dated: inside the history (backtest) or after it.
ForecastDays == 1 .. (MaxDay + 1)

ForecastPrices == {50, 150}

\* forecast_dates: strictly increasing, at most MaxPath long.
ForecastDateSeqs ==
    {SortedSeqOf(S) : S \in {T \in SUBSET ForecastDays : Cardinality(T) <= MaxPath}}

\* confidence_interval of a response for the path vs: absent, or lower/upper
\* that bracket the path (lower[i] <= vs[i] <= upper[i]) and may stop short of
\* its end.
ConfidenceIntervals(vs) ==
    {Undefined} \cup
    {Some([lower |-> [i \in 1..a |-> vs[i] - 50],
           upper |-> [i \in 1..b |-> vs[i] + 50]]) :
        a \in 0..Len(vs), b \in 0..Len(vs)}

Directions == {"UP", "DOWN", "undefined"}

PredictedPrices == {Undefined, Some(50), Some(150)}

\* A response body with the fields the page reads; feature_importance and
\* metrics are absent unless WithPanels adds them.
Body(dir, pp, ds, vs, ci) ==
    [direction |-> dir,
     predicted_price |-> pp,
     forecast_dates |-> ds,
     forecast_values |-> vs,
     confidence_interval |-> ci,
     feature_importance |-> Undefined,
     metrics |-> Undefined]

\* The forecast paths of a response: parallel dates and values; the modelled
\* paths are flat, every value the same price.
Paths ==
    {[dates |-> ds, values |-> [i \in 1..Len(ds) |-> v]] :
        ds \in ForecastDateSeqs, v \in ForecastPrices}

\* Bodies that vary the direction and the target, without bounds, with a
\* path or without; direction "undefined" without anything else is the JSON
\* body of an error answer ({detail: ...}).
SignalBodies ==
    {Body(dir, pp, Some(p.dates), Some(p.values), Undefined) :
        dir \in Directions, pp \in PredictedPrices, p \in Paths}
    \cup {Body(dir, pp, Undefined, Undefined, Undefined) :
        dir \in Directions, pp \in PredictedPrices}

\* Bodies that vary the path and its bounds.
BoundedBodies ==
    UNION {{Body("UP", Undefined, Some(p.dates), Some(p.values), ci) :
                ci \in ConfidenceIntervals(p.values)} :
           p \in Paths}

Bodies == SignalBodies \cup BoundedBodies

\* One ordinary answer: UP, a one-day path after the history, no bounds.
PlainBody == Body("UP", Some(150), Some(<<MaxDay + 1>>), Some(<<150>>), Undefined)

\* The JSON body of an error answer ({detail: ...}): none of the fields.
ErrorBody == Body("undefined", Undefined, Undefined, Undefined, Undefined)

\* feature_importance?: Record<string, number>, absent or with one entry.
FeatureImportances == {Undefined, Some([name |-> "RSI", value |-> 30])}

\* metrics?: {mae, rmse, mape}, absent or present.
MetricsValues == {Undefined, Some([mae |-> 1, rmse |-> 2, mape |-> 3])}

\* The body b with the feature importance fi and the metrics m.
WithPanels(b, fi, m) == [b EXCEPT !.feature_importance = fi, !.metrics = m]

\* Bodies that vary the feature importance and the metrics, with a path or
\* without, for every direction and target.
PanelBodies ==
    {WithPanels(b, fi, m) :
        b \in {PlainBody} \cup {Body(dir, pp, Undefined, Undefined, Undefined) :
                                  dir \in Directions, pp \in PredictedPrices},
        fi \in FeatureImportances,
        m \in MetricsValues}

----------------------------------------------------------------------------
(* Chart data preparation: the chartData memo *)

\* forecastVal * 0.98 and forecastVal * 1.02; exact on the modelled prices,
\* which are multiples of 50.
Times098(v) == (v * 98) \div 100

Times102(v) == (v * 102) \div 100

\* ciLowerSeries?.[i] ?? forecastVal * 0.98, with the upper value in place of
\* the lower one.
CiLowerSwapped(ci, i, forecastVal) ==
    IF IsSet(ci) /\ i <= Len(ci[1].lower) THEN ci[1].lower[i] ELSE Times102(forecastVal)

\* ciLowerSeries?.[i] ?? forecastVal * 0.98
CiLower(ci, i, forecastVal) ==
    IF IsSet(ci) /\ i <= Len(ci[1].lower) THEN ci[1].lower[i] ELSE Times098(forecastVal)

\* ciUpperSeries?.[i] ?? forecastVal * 1.02
CiUpper(ci, i, forecastVal) ==
    IF IsSet(ci) /\ i <= Len(ci[1].upper) THEN ci[1].upper[i] ELSE Times102(forecastVal)

\* history.map(h => ({Date, Close, Forecast: null, ...}))
HistoryPoint(h) ==
    [Date |-> h.Date,
     Close |-> Some(h.Close),
     Forecast |-> Null,
     ci_lower |-> Null,
     ci_upper |-> Null,
     isForecast |-> FALSE]

\* data.findIndex(item => item.Date === d); 0 stands for -1.
FindIndex(data, d) ==
    IF \E k \in 1..Len(data) : data[k].Date = d
    THEN CHOOSE k \in 1..Len(data) :
            /\ data[k].Date = d
            /\ \A j \in 1..(k - 1) : data[j].Date # d
    ELSE 0

\* The overlay of a forecast point that forgets to mark it.
OverlayUnmarked(pt, forecastVal, lo, up) ==
    [pt EXCEPT !.Forecast = Some(forecastVal),
               !.ci_lower = Some(lo),
               !.ci_upper = Some(up)]

\* The overlay of a forecast point that overwrites the close of the bar.
OverlayDropsClose(pt, forecastVal, lo, up) ==
    [pt EXCEPT !.Close = Null,
               !.Forecast = Some(forecastVal),
               !.ci_lower = Some(lo),
               !.ci_upper = Some(up),
               !.isForecast = TRUE]

\* The assignments to data[existingIndex].
Overlay(pt, forecastVal, lo, up) ==
    [pt EXCEPT !.Forecast = Some(forecastVal),
               !.ci_lower = Some(lo),
               !.ci_upper = Some(up),
               !.isForecast = TRUE]

\* One iteration of forecast_dates.forEach((d, i) => ...).
PlaceForecast(data, p, i) ==
    LET d == p.forecast_dates[1][i]
        existingIndex == FindIndex(data, d)
        forecastVal == p.forecast_values[1][i]
        ci_lower == CiLower(p.confidence_interval, i, forecastVal)
        ci_upper == CiUpper(p.confidence_interval, i, forecastVal)
    IN IF existingIndex # 0
       THEN [k \in 1..Len(data) |->
                IF k = existingIndex
                THEN Overlay(data[k], forecastVal, ci_lower, ci_upper)
                ELSE data[k]]
       ELSE Append(data, [Date |-> d,
                          Close |-> Null,
                          Forecast |-> Some(forecastVal),
                          ci_lower |-> Some(ci_lower),
                          ci_upper |-> Some(ci_upper),
                          isForecast |-> TRUE])

RECURSIVE PlaceForecasts(_, _, _)
\* The forEach loop from index i on.
PlaceForecasts(data, p, i) ==
    IF i > Len(p.forecast_dates[1]) THEN data
    ELSE PlaceForecasts(PlaceForecast(data, p, i), p, i + 1)

RECURSIVE InsertByDate(_, _)
\* Inserts pt after every point whose date is not later (the sort is stable).
InsertByDate(sorted, pt) ==
    IF sorted = <<>> THEN <<pt>>
    ELSE IF ParseDate(Head(sorted).Date) <= ParseDate(pt.Date)
         THEN <<Head(sorted)>> \o InsertByDate(Tail(sorted), pt)
         ELSE <<pt>> \o sorted

\* chartData without its final sort.
SortByDateSkipped(data) == data

RECURSIVE SortByDate(_)
\* data.sort((a, b) => new Date(a.Date).getTime() - new Date(b.Date).getTime())
SortByDate(data) ==
    IF data = <<>> THEN <<>>
    ELSE InsertByDate(SortByDate(SubSeq(data, 1, Len(data) - 1)), data[Len(data)])

\* The chartData memo for the history h and the prediction pred.
ChartDataOf(h, pred) ==
    LET data == [i \in 1..Len(h) |-> HistoryPoint(h[i])]
    IN SortByDate(
        IF pred # Null /\ IsSet(pred[1].forecast_dates) /\ IsSet(pred[1].forecast_values)
        THEN PlaceForecasts(data, pred[1], 1)
        ELSE data)

chartData == ChartDataOf(history, prediction)

----------------------------------------------------------------------------
(* Other values derived on every render, and what the cards show *)

hasForecastPath ==
    /\ prediction # Null
    /\ IsSet(prediction[1].forecast_values)
    /\ Len(prediction[1].forecast_values[1]) > 0

hasConfidence ==
    /\ prediction # Null
    /\ IsSet(prediction[1].confidence_interval)
    /\ Len(prediction[1].confidence_interval[1].lower) > 0
    /\ Len(prediction[1].confidence_interval[1].upper) > 0

canShowConfidence == hasForecastPath /\ hasConfidence

\* {showCI && canShowConfidence && (<Line ci_upper/> <Line ci_lower/>)}
ConfidenceLinesShown == showCI /\ canShowConfidence

\* prediction?.predicted_price ?? (forecast_values ? forecast_values[length-1] : null)
displayForecastTarget ==
    IF prediction = Null THEN Null
    ELSE IF IsSet(prediction[1].predicted_price) THEN prediction[1].predicted_price
    ELSE IF IsSet(prediction[1].forecast_values)
              /\ Len(prediction[1].forecast_values[1]) > 0
         THEN Some(prediction[1].forecast_values[1][Len(prediction[1].forecast_values[1])])
         ELSE Null

\* The label of the Direction Signal card, "" while the card is not rendered.
DirectionLabel ==
    IF prediction = Null THEN ""
    ELSE IF prediction[1].direction = "UP" THEN "BULLISH" ELSE "BEARISH"

\* {referenceDate && <Badge>Backtest Mode: ...</Badge>}
BacktestBadge == IsSet(referenceDate)

\* {prediction && (...)}: the Direction Signal, Forecast Target and
\* Validation Metrics cards are rendered.
StatsCardsShown == prediction # Null

\* displayForecastTarget ? `$${...toFixed(2)}` : "N/A"; the number stands for
\* its formatted text.
ForecastTargetText ==
    IF IsSet(displayForecastTarget) /\ displayForecastTarget[1] # 0
    THEN displayForecastTarget
    ELSE Null

MetricsPanelWhenPath ==
    IF prediction = Null THEN ""
    ELSE IF hasForecastPath THEN "MAE RMSE MAPE"
    ELSE "Available in Backtest Mode"

\* prediction.metrics ? (MAE, RMSE, MAPE rows) : "Available in Backtest Mode";
\* "" while the card is not rendered.
MetricsPanel ==
    IF prediction = Null THEN ""
    ELSE IF IsSet(prediction[1].metrics) THEN "MAE RMSE MAPE"
    ELSE "Available in Backtest Mode"

KeyDriversPanelWhenMetrics ==
    IF prediction # Null /\ IsSet(prediction[1].metrics)
    THEN "drivers"
    ELSE "No feature data"

\* prediction?.feature_importance ? (the entries) : "No feature data"
KeyDriversPanel ==
    IF prediction # Null /\ IsSet(prediction[1].feature_importance)
    THEN "drivers"
    ELSE "No feature data"

\* Everything the rendered page is computed from.
UserView ==
    <<ticker, model, horizon, referenceDate, startDate, showCI, loading,
      prediction, history>>

----------------------------------------------------------------------------
(* The initial state: the first render, after its effects have run *)

Init ==
    /\ tzOffset \in TimezoneOffsets
    /\ ticker = "SPY"
    /\ model = "xgboost"
    /\ horizon = 14
    /\ referenceDate = Undefined
    /\ startDate = Undefined
    /\ showCI = FALSE
    /\ loading = FALSE
    /\ prediction = Null
    /\ history = <<>>
    /\ predInFlight = Null
    /\ histInFlight = <<"SPY">>     \* useEffect(() => { fetchHistory() }, [ticker])
    /\ consoleErrors = 0
    /\ lastClamp = "none"

----------------------------------------------------------------------------
(* The controls *)

\* Asset selector: setTicker(t); the [ticker] effect then calls fetchHistory.
setTicker(t) ==
    /\ t # ticker
    /\ ticker' = t
    /\ histInFlight' = Append(histInFlight, t)
    /\ UNCHANGED <<tzOffset, lastClamp, model, horizon, referenceDate, startDate, showCI,
                   loading, prediction, history, predInFlight, consoleErrors>>

\* Engine selector: setModel(m).
setModel(m) ==
    /\ m # model
    /\ model' = m
    /\ UNCHANGED <<tzOffset, lastClamp, ticker, horizon, referenceDate, startDate, showCI,
                   loading, prediction, history, predInFlight, histInFlight,
                   consoleErrors>>

\* Horizon slider: setHorizon([value]) for the thumb position pos.
setHorizon(pos) ==
    /\ SliderValue(pos) # horizon
    /\ horizon' = SliderValue(pos)
    /\ UNCHANGED <<tzOffset, lastClamp, ticker, model, referenceDate, startDate, showCI,
                   loading, prediction, history, predInFlight, histInFlight,
                   consoleErrors>>

\* A day cell of a Calendar with fromDate={from} toDate={to} can be clicked.
DayEnabled(day, from, to) ==
    /\ IsSet(from) => day >= LocalDay(from[1])
    /\ IsSet(to) => day <= LocalDay(to[1])

\* What a mode="single" Calendar hands to onSelect when day is clicked:
\* the day, or undefined when it is the selected day.
Clicked(day, selected) ==
    IF IsSet(selected) /\ LocalDay(selected[1]) = day
    THEN Undefined
    ELSE Some(LocalMidnight(day))

\* "Start Training From" calendar: onSelect={setStartDate}.
onSelectStartDate(day) ==
    /\ DayEnabled(day, minDate, IF IsSet(referenceDate) THEN referenceDate ELSE maxDate)
    /\ LET s == SettleDates(Clicked(day, startDate), referenceDate)
       IN /\ startDate' = s.start
          /\ referenceDate' = s.ref
          /\ lastClamp' = s.clamp
    /\ UNCHANGED <<tzOffset, ticker, model, horizon, showCI, loading, prediction,
                   history, predInFlight, histInFlight, consoleErrors>>

\* "Prediction Point (Backtest)" calendar: onSelect={setReferenceDate}.
onSelectReferenceDate(day) ==
    /\ DayEnabled(day, IF IsSet(startDate) THEN startDate ELSE minDate, maxDate)
    /\ LET s == SettleDates(startDate, Clicked(day, referenceDate))
       IN /\ startDate' = s.start
          /\ referenceDate' = s.ref
          /\ lastClamp' = s.clamp
    /\ UNCHANGED <<tzOffset, ticker, model, horizon, showCI, loading, prediction,
                   history, predInFlight, histInFlight, consoleErrors>>

\* "Reset to Live", rendered while a reference date is set.
ResetToLive ==
    /\ IsSet(referenceDate)
    /\ referenceDate' = Undefined
    /\ lastClamp' = "none"
    /\ UNCHANGED <<tzOffset, ticker, model, horizon, startDate, showCI, loading,
                   prediction, history, predInFlight, histInFlight, consoleErrors>>

\* "Show/Hide Confidence" without disabled={!canShowConfidence}.
toggleShowCIAlwaysEnabled ==
    /\ showCI' = ~showCI
    /\ UNCHANGED <<tzOffset, lastClamp, ticker, model, horizon, referenceDate, startDate,
                   loading, prediction, history, predInFlight, histInFlight,
                   consoleErrors>>

\* "Show/Hide Confidence", disabled unless canShowConfidence.
toggleShowCI ==
    /\ canShowConfidence
    /\ showCI' = ~showCI
    /\ UNCHANGED <<tzOffset, lastClamp, ticker, model, horizon, referenceDate, startDate,
                   loading, prediction, history, predInFlight, histInFlight,
                   consoleErrors>>

----------------------------------------------------------------------------
(* fetchPrediction *)

\* Run Forecast without disabled={loading}.
fetchPredictionAlwaysEnabled ==
    /\ Len(predInFlight) < 2
    /\ loading' = TRUE
    /\ predInFlight' = Append(predInFlight, Payload)
    /\ UNCHANGED <<tzOffset, lastClamp, ticker, model, horizon, referenceDate, startDate,
                   showCI, prediction, history, histInFlight, consoleErrors>>

\* "Run Forecast" (disabled while loading): up to the await of fetch.
fetchPrediction ==
    /\ ~loading
    /\ loading' = TRUE
    /\ predInFlight' = Append(predInFlight, Payload)
    /\ UNCHANGED <<tzOffset, lastClamp, ticker, model, horizon, referenceDate, startDate,
                   showCI, prediction, history, histInFlight, consoleErrors>>

\* The response arrives and res.json() parses it: setPrediction(data), finally.
fetchPredictionResolve(body) ==
    /\ predInFlight # Null
    /\ prediction' = Some(body)
    /\ loading' = FALSE
    /\ predInFlight' = Tail(predInFlight)
    /\ UNCHANGED <<tzOffset, lastClamp, ticker, model, horizon, referenceDate, startDate,
                   showCI, history, histInFlight, consoleErrors>>

\* The catch block without the finally block.
fetchPredictionRejectNoFinally ==
    /\ predInFlight # Null
    /\ consoleErrors' = (consoleErrors + 1) % 2
    /\ predInFlight' = Tail(predInFlight)
    /\ UNCHANGED <<tzOffset, lastClamp, ticker, model, horizon, referenceDate, startDate,
                   showCI, loading, prediction, history, histInFlight>>

\* fetch rejects or res.json() throws: catch (console.error), finally.
fetchPredictionReject ==
    /\ predInFlight # Null
    /\ consoleErrors' = (consoleErrors + 1) % 2
    /\ loading' = FALSE
    /\ predInFlight' = Tail(predInFlight)
    /\ UNCHANGED <<tzOffset, lastClamp, ticker, model, horizon, referenceDate, startDate,
                   showCI, prediction, history, histInFlight>>

\* await fetch(...) / await res.json() completes, one way or the other.
fetchPredictionSettles ==
    \/ \E body \in {PlainBody} : fetchPredictionResolve(body)
    \/ fetchPredictionReject

----------------------------------------------------------------------------
(* fetchHistory *)

\* The sequence without its i-th element.
RemoveAt(q, i) == SubSeq(q, 1, i - 1) \o SubSeq(q, i + 1, Len(q))

\* The i-th pending history request is answered with data: setHistory(data),
\* then the date effects.
fetchHistoryResolve(i, data) ==
    /\ i \in 1..Len(histInFlight)
    /\ histInFlight' = RemoveAt(histInFlight, i)
    /\ history' = data
    /\ LET s == SettleHistory(startDate, referenceDate, data)
       IN /\ startDate' = s.start
          /\ referenceDate' = s.ref
          /\ lastClamp' = s.clamp
    /\ UNCHANGED <<tzOffset, ticker, model, horizon, showCI, loading, prediction,
                   predInFlight, consoleErrors>>

\* The catch block of fetchHistory with a setHistory([]) added.
fetchHistoryRejectClears(i) ==
    /\ i \in 1..Len(histInFlight)
    /\ consoleErrors' = (consoleErrors + 1) % 2
    /\ histInFlight' = RemoveAt(histInFlight, i)
    /\ history' = <<>>
    /\ UNCHANGED <<tzOffset, lastClamp, ticker, model, horizon, referenceDate, startDate,
                   showCI, loading, prediction, predInFlight>>

\* The i-th pending history request fails: catch (console.error).
fetchHistoryReject(i) ==
    /\ i \in 1..Len(histInFlight)
    /\ consoleErrors' = (consoleErrors + 1) % 2
    /\ histInFlight' = RemoveAt(histInFlight, i)
    /\ UNCHANGED <<tzOffset, lastClamp, ticker, model, horizon, referenceDate, startDate,
                   showCI, loading, prediction, history, predInFlight>>

----------------------------------------------------------------------------
(* Specifications *)

\* The tickers the modelled user switches to while fewer than cap history
\* requests are pending.
Selectable(cap) == IF Len(histInFlight) < cap THEN TickerChoices ELSE {}

\* The answers <<i, data>> in which the i-th pending history request gets
\* bars of the ticker it asked for.
AnswersInKind ==
    UNION {{<<i, data>> : data \in HistoriesOf(histInFlight[i])} :
           i \in 1..Len(histInFlight)}

\* The dashboard with its dates, tickers, histories and requests, every
\* request being answered.
Next ==
    \/ \E t \in Selectable(MaxHistInFlight) : setTicker(t)
    \/ \E day \in CalendarDays : onSelectStartDate(day)
    \/ \E day \in CalendarDays : onSelectReferenceDate(day)
    \/ ResetToLive
    \/ fetchPrediction
    \/ \E body \in {PlainBody} : fetchPredictionResolve(body)
    \/ \E i \in 1..MaxHistInFlight, data \in Histories : fetchHistoryResolve(i, data)

Spec == Init /\ [][Next]_vars

\* The date controls and the requests they shape, for the ticker selected on
\* mount.
NextDates ==
    \/ \E day \in CalendarDays : onSelectStartDate(day)
    \/ \E day \in CalendarDays : onSelectReferenceDate(day)
    \/ ResetToLive
    \/ fetchPrediction
    \/ \E body \in {PlainBody} : fetchPredictionResolve(body)
    \/ \E i \in 1..MaxHistInFlight, data \in Histories : fetchHistoryResolve(i, data)

SpecDates == Init /\ [][NextDates]_vars

\* The date controls, the ticker changes and the history loads: every step
\* after which a date effect runs.
NextClamps ==
    \/ \E t \in Selectable(MaxHistInFlight) : setTicker(t)
    \/ \E day \in CalendarDays : onSelectStartDate(day)
    \/ \E day \in CalendarDays : onSelectReferenceDate(day)
    \/ ResetToLive
    \/ \E i \in 1..MaxHistInFlight, data \in Histories : fetchHistoryResolve(i, data)

SpecClamps == Init /\ [][NextClamps]_vars

\* The requests and their outcomes, failures included.
NextErrors ==
    \/ \E t \in Selectable(MaxHistInFlight) : setTicker(t)
    \/ fetchPrediction
    \/ \E body \in {PlainBody} : fetchPredictionResolve(body)
    \/ fetchPredictionReject
    \/ \E i \in 1..MaxHistInFlight, data \in Histories : fetchHistoryResolve(i, data)
    \/ \E i \in 1..MaxHistInFlight : fetchHistoryReject(i)

SpecErrors == Init /\ [][NextErrors]_vars

\* The same, every prediction request being settled in the end: the backend
\* answers within its per-request timeout or the fetch fails.
SpecSettles == Init /\ [][NextErrors]_vars /\ WF_vars(fetchPredictionSettles)

\* Ticker changes while history requests are pending, every request being
\* answered with the bars of the ticker it asked for, in any order.
NextRace ==
    \/ \E t \in Selectable(MaxRacing) : setTicker(t)
    \/ \E answer \in AnswersInKind : fetchHistoryResolve(answer[1], answer[2])

SpecRace == Init /\ [][NextRace]_vars

\* The engine and horizon controls and the requests they shape.
NextControls ==
    \/ \E m \in EngineOptions : setModel(m)
    \/ \E pos \in SliderPositions : setHorizon(pos)
    \/ fetchPrediction
    \/ \E body \in {PlainBody} : fetchPredictionResolve(body)
    \/ fetchPredictionReject

SpecControls == Init /\ [][NextControls]_vars

\* What is displayed for every history and every response; nothing displayed
\* reads the time zone, which is UTC here.
InitView == Init /\ tzOffset = 0

NextView ==
    \/ \E i \in 1..MaxHistInFlight, data \in Histories : fetchHistoryResolve(i, data)
    \/ fetchPrediction
    \/ \E body \in Bodies : fetchPredictionResolve(body)
    \/ toggleShowCI

SpecView == InitView /\ [][NextView]_vars

\* What the panels show for responses with and without feature importance
\* and metrics.
NextPanels ==
    \/ \E i \in 1..MaxHistInFlight, data \in Histories : fetchHistoryResolve(i, data)
    \/ fetchPrediction
    \/ \E body \in PanelBodies : fetchPredictionResolve(body)

SpecPanels == InitView /\ [][NextPanels]_vars

----------------------------------------------------------------------------
(* Properties *)

\* C1: every prediction request the dashboard sends carries a horizon that is
\* an integer between 1 and 60, whatever the slider was moved to before Run
\* Forecast was pressed.
C1_HorizonInRange ==
    predInFlight # Null =>
        /\ predInFlight[1].horizon \in Int
        /\ predInFlight[1].horizon >= 1
        /\ predInFlight[1].horizon <= 60

\* C1 witness: a request is in flight that was sent with the slider at its
\* upper end.
C1_Witness == predInFlight # Null /\ predInFlight[1].horizon = 60

\* C2 as stated: the model field of every prediction request is one of the
\* four values of the request enum of the specification.
C2_ModelInSpecEnum ==
    predInFlight # Null =>
        predInFlight[1].model \in
            {"gradient_boosted_trees", "random_forest", "linear", "time_series_native"}

\* C2 amended: the model field of every prediction request is one of the four
\* identifiers of the Engine selector: xgboost, random_forest,
\* linear_regression, prophet.
C2_ModelInEngineIds ==
    predInFlight # Null =>
        predInFlight[1].model \in
            {"xgboost", "random_forest", "linear_regression", "prophet"}

\* C2 witness: a request is in flight whose model was chosen in the Engine
\* selector.
C2_Witness == predInFlight # Null /\ predInFlight[1].model = "linear_regression"

\* C3: a reference date earlier than the start date is clamped up to the
\* start date: once the effects have run the reference date held is not
\* before the start date held, and no request is sent whose reference_date is
\* earlier than its start_date when both are present.
C3_ReferenceNotBeforeStart ==
    /\ (IsSet(referenceDate) /\ IsSet(startDate)) => ~(referenceDate[1] < startDate[1])
    /\ (/\ predInFlight # Null
        /\ IsSet(predInFlight[1].reference_date)
        /\ IsSet(predInFlight[1].start_date))
       => ~(predInFlight[1].reference_date[1] < predInFlight[1].start_date[1])

\* C3 witness: a request with both dates was sent after the effect had
\* clamped the reference date up to the start date.
C3_Witness ==
    /\ lastClamp = "startDate"
    /\ predInFlight # Null
    /\ IsSet(predInFlight[1].reference_date)
    /\ IsSet(predInFlight[1].start_date)

\* C4: with a history loaded and the effects run, the start date that is set
\* (the day the control shows and a request would carry) is never earlier
\* than the first date of the loaded history.
C4_StartNotBeforeEarliest ==
    (Len(history) > 0 /\ IsSet(startDate)) =>
        PayloadStartDate(startDate)[1] >= history[1].Date

\* C5: a reference date that is set (the day the control shows and a request
\* would carry) is never later than the last date of the loaded history.
C5_ReferenceNotAfterLatest ==
    (Len(history) > 0 /\ IsSet(referenceDate)) =>
        PayloadReferenceDate(referenceDate)[1] <= history[Len(history)].Date

\* C6: no error is silently swallowed: a step in which a request fails (the
\* catch block logs it) changes what the page shows.
C6_FailureSurfaced ==
    [][consoleErrors' # consoleErrors => UserView' # UserView]_vars

\* C7: for every forecast point of the chart data,
\* ci_lower <= Forecast <= ci_upper, whether the bounds come from the
\* response or from the 2% fallback.
C7_BoundsBracketForecast ==
    \A k \in 1..Len(chartData) :
        chartData[k].isForecast =>
            /\ chartData[k].ci_lower[1] <= chartData[k].Forecast[1]
            /\ chartData[k].Forecast[1] <= chartData[k].ci_upper[1]

\* C7 witness: the held prediction has bounds for the first forecast point
\* and none for the last, so the chart holds both kinds of bounds.
C7_Witness ==
    /\ prediction # Null
    /\ IsSet(prediction[1].forecast_values)
    /\ IsSet(prediction[1].confidence_interval)
    /\ Len(prediction[1].confidence_interval[1].lower) >= 1
    /\ Len(prediction[1].confidence_interval[1].lower) < Len(prediction[1].forecast_values[1])
    /\ Len(prediction[1].confidence_interval[1].upper) < Len(prediction[1].forecast_values[1])
    /\ \E k \in 1..Len(chartData) :
        /\ chartData[k].isForecast
        /\ chartData[k].ci_lower[1] = Times098(chartData[k].Forecast[1])

\* The indices of the chart points dated d.
PointsDated(d) == {k \in 1..Len(chartData) : chartData[k].Date = d}

C9_DirectionAgreesWithTarget ==
    (prediction # Null /\ Len(history) > 0 /\ IsSet(displayForecastTarget)) =>
        /\ DirectionLabel = "BULLISH" =>
               displayForecastTarget[1] > history[Len(history)].Close
        /\ DirectionLabel = "BEARISH" =>
               ~(displayForecastTarget[1] > history[Len(history)].Close)

\* C10: BULLISH is shown exactly when the held prediction's direction is UP,
\* BEARISH exactly when it is DOWN, and neither for any other held
\* prediction.
C10_DirectionOnlyUpOrDown ==
    prediction # Null =>
        /\ DirectionLabel = "BULLISH" <=> prediction[1].direction = "UP"
        /\ DirectionLabel = "BEARISH" <=> prediction[1].direction = "DOWN"

\* C11: the Backtest Mode badge is shown if and only if a reference date is
\* set and is strictly earlier than the latest bar date of the loaded
\* history; a reference date on the latest bar date is live.
C11_BadgeIffOutcomeKnown ==
    BacktestBadge <=>
        /\ IsSet(referenceDate)
        /\ Len(history) > 0
        /\ PayloadReferenceDate(referenceDate)[1] < history[Len(history)].Date

\* C12: with a prediction held, the Validation Metrics panel shows MAE, RMSE
\* and MAPE if and only if the prediction contains metrics; otherwise it
\* shows the "Available in Backtest Mode" placeholder while the direction,
\* the target and the chart are shown as they are with metrics.
C12_MetricsPanelIffMetrics ==
    prediction # Null =>
        /\ MetricsPanel = "MAE RMSE MAPE" <=> IsSet(prediction[1].metrics)
        /\ ~IsSet(prediction[1].metrics) =>
              /\ MetricsPanel = "Available in Backtest Mode"
              /\ StatsCardsShown
              /\ DirectionLabel \in {"BULLISH", "BEARISH"}
              /\ chartData =
                    ChartDataOf(history,
                        Some([prediction[1] EXCEPT
                                 !.metrics = Some([mae |-> 1, rmse |-> 2, mape |-> 3])]))

\* C12 witness: a prediction with a forecast path and without metrics is
\* held over a loaded history.
C12_Witness ==
    /\ prediction # Null
    /\ ~IsSet(prediction[1].metrics)
    /\ hasForecastPath
    /\ Len(history) > 0
    /\ MetricsPanel = "Available in Backtest Mode"

\* C13: when the held prediction has no feature_importance the Key Drivers
\* panel shows "No feature data", no error is logged, and the direction, the
\* target, the metrics panel and the chart are shown as for the same response
\* with a feature importance.
C13_AbsentFeatureImportanceExpected ==
    (prediction # Null /\ ~IsSet(prediction[1].feature_importance)) =>
        /\ KeyDriversPanel = "No feature data"
        /\ consoleErrors = 0
        /\ StatsCardsShown
        /\ DirectionLabel \in {"BULLISH", "BEARISH"}
        /\ ForecastTargetText = displayForecastTarget
        /\ MetricsPanel = "MAE RMSE MAPE" <=> IsSet(prediction[1].metrics)
        /\ chartData =
              ChartDataOf(history,
                  Some([prediction[1] EXCEPT
                           !.feature_importance = Some([name |-> "RSI", value |-> 30])]))

\* C13 witness: a prediction without feature_importance but with metrics and
\* a forecast path is held.
C13_Witness ==
    /\ prediction # Null
    /\ ~IsSet(prediction[1].feature_importance)
    /\ IsSet(prediction[1].metrics)
    /\ hasForecastPath
    /\ KeyDriversPanel = "No feature data"

\* A step in which Run Forecast sends a request.
RequestSent == Len(predInFlight') > Len(predInFlight)

\* C14: a request contains reference_date if and only if a reference date is
\* set when Run Forecast is pressed, and start_date if and only if a start
\* date is set; with the reference date reset (not set) the request has no
\* reference_date.
C14_OptionalDatesSentWhenChosen ==
    [][RequestSent =>
        LET sent == predInFlight'[Len(predInFlight')]
        IN /\ IsSet(sent.reference_date) <=> IsSet(referenceDate)
           /\ IsSet(sent.start_date) <=> IsSet(startDate)
           /\ IsSet(referenceDate) => sent.reference_date[1] = LocalDay(referenceDate[1])
           /\ IsSet(startDate) => sent.start_date[1] = LocalDay(startDate[1])]_vars

\* C14 witness: after an earlier forecast, a request is in flight that
\* carries a start_date and, the reference date not being set, no
\* reference_date.
C14_Witness ==
    /\ prediction # Null
    /\ predInFlight # Null
    /\ ~IsSet(referenceDate)
    /\ ~IsSet(predInFlight[1].reference_date)
    /\ IsSet(predInFlight[1].start_date)

C16_OneRequestInFlight ==
    /\ Len(predInFlight) <= 1
    /\ loading <=> predInFlight # <<>>

\* C16 witness: after a first forecast was delivered, Run Forecast was
\* pressed again: one request in flight, the button disabled.
C16_Witness ==
    /\ prediction # Null
    /\ loading
    /\ Len(predInFlight) = 1

\* C17: once every pending history request has been answered, the loaded
\* history (and so minDate and maxDate) is that of the selected ticker.
C17_HistoryOfSelectedTicker ==
    histInFlight = <<>> => history \in HistoriesOf(ticker)

\* A step in which the response of a prediction request is stored.
ResultDelivered ==
    /\ Len(predInFlight') < Len(predInFlight)
    /\ consoleErrors' = consoleErrors
    /\ prediction' # Null

\* C18: a result for a superseded selection is not delivered: the response
\* that is stored and displayed answers a request made for the ticker, the
\* model and the horizon that the page shows when it is stored.
C18_ResultForCurrentSelection ==
    [][ResultDelivered =>
        /\ Head(predInFlight).ticker = ticker'
        /\ Head(predInFlight).model = model'
        /\ Head(predInFlight).horizon = horizon']_vars

\* C19: an error answer is never stored as a prediction: the prediction
\* held, from which direction and target are displayed, is never the body of
\* an error answer.
C19_ErrorNeverStored ==
    [][prediction' # prediction => prediction' # Some(ErrorBody)]_vars

\* A step in which a request fails: its catch block logs the error.
RequestFailed == consoleErrors' # consoleErrors

C21_ConfidenceOnlyWhenProvided ==
    /\ [](ConfidenceLinesShown =>
            /\ showCI
            /\ prediction # Null
            /\ IsSet(prediction[1].forecast_values)
            /\ Len(prediction[1].forecast_values[1]) > 0
            /\ IsSet(prediction[1].confidence_interval)
            /\ Len(prediction[1].confidence_interval[1].lower) > 0
            /\ Len(prediction[1].confidence_interval[1].upper) > 0)
    /\ [][showCI' # showCI =>
            /\ prediction # Null
            /\ IsSet(prediction[1].confidence_interval)
            /\ Len(prediction[1].confidence_interval[1].lower) > 0
            /\ Len(prediction[1].confidence_interval[1].upper) > 0
            /\ hasForecastPath]_vars

\* C21 witness: showCI was switched on and a response without a confidence
\* interval then arrived: the lines are not drawn and the button is
\* disabled.
C21_Witness ==
    /\ showCI
    /\ prediction # Null
    /\ hasForecastPath
    /\ ~IsSet(prediction[1].confidence_interval)
    /\ ~ConfidenceLinesShown

\* C22: whenever the confidence lines are displayed, the ci_lower and
\* ci_upper of every forecast point are confidence_interval.lower[i] and
\* .upper[i] of the held prediction at the index i of the point, never the
\* 2% fallback, also when lower or upper is shorter than forecast_values.
C22_BoundsFromResponse ==
    ConfidenceLinesShown =>
        \A k \in 1..Len(chartData) :
            chartData[k].isForecast =>
                \A i \in 1..Len(prediction[1].forecast_dates[1]) :
                    prediction[1].forecast_dates[1][i] = chartData[k].Date =>
                        /\ i <= Len(prediction[1].confidence_interval[1].lower)
                        /\ i <= Len(prediction[1].confidence_interval[1].upper)
                        /\ chartData[k].ci_lower =
                              Some(prediction[1].confidence_interval[1].lower[i])
                        /\ chartData[k].ci_upper =
                              Some(prediction[1].confidence_interval[1].upper[i])

\* The dates of the loaded history.
HistoryDates == {history[j].Date : j \in 1..Len(history)}

\* The forecast dates the chart data places.
ForecastDates ==
    IF prediction # Null
          /\ IsSet(prediction[1].forecast_dates)
          /\ IsSet(prediction[1].forecast_values)
    THEN {prediction[1].forecast_dates[1][i] :
             i \in 1..Len(prediction[1].forecast_dates[1])}
    ELSE {}

\* C23: for a history sorted ascending with unique dates and a prediction
\* with unique forecast dates, chartData is sorted ascending by date, holds
\* each date at most once, and has as many points as the union of the
\* history dates and the forecast dates.
C23_ChartOrderedWithoutDuplicates ==
    /\ \A k \in 1..(Len(chartData) - 1) :
          ParseDate(chartData[k].Date) < ParseDate(chartData[k + 1].Date)
    /\ \A k, l \in 1..Len(chartData) :
          chartData[k].Date = chartData[l].Date => k = l
    /\ {chartData[k].Date : k \in 1..Len(chartData)} = HistoryDates \cup ForecastDates
    /\ Len(chartData) = Cardinality(HistoryDates \cup ForecastDates)

\* C23 witness: one forecast date lies on a history bar and is overlaid, and
\* another one, not in the history, is earlier than a history bar, so that
\* the appended point has to be sorted in.
C23_Witness ==
    /\ HistoryDates \cap ForecastDates # {}
    /\ \E d \in ForecastDates \ HistoryDates : \E e \in HistoryDates : d < e
    /\ Len(chartData) < Len(history) + Cardinality(ForecastDates)

\* The Date and Close of the chart points dated on a history bar, in chart
\* order.
RealizedInChart ==
    LET onBar == SelectSeq(chartData, LAMBDA pt : pt.Date \in HistoryDates)
    IN [k \in 1..Len(onBar) |-> <<onBar[k].Date, onBar[k].Close>>]

\* C24: overlaying a forecast never alters realized data: every history bar
\* is in chartData with its Date and Close, in the order of the history,
\* whatever the prediction is; the points of forecast-only dates have Close
\* null; and storing a prediction leaves the history state unchanged.
C24_RealizedDataUntouched ==
    /\ [](/\ RealizedInChart =
                [j \in 1..Len(history) |-> <<history[j].Date, Some(history[j].Close)>>]
           /\ \A k \in 1..Len(chartData) :
                chartData[k].Date \notin HistoryDates =>
                    chartData[k].Close = Null /\ chartData[k].isForecast)
    /\ [][prediction' # prediction => history' = history]_vars

\* C24 witness: over a history of MaxDay bars a forecast is held with one
\* date on a bar and one date after the bars.
C24_Witness ==
    /\ Len(history) = MaxDay
    /\ HistoryDates \cap ForecastDates # {}
    /\ ForecastDates \ HistoryDates # {}
    /\ \E k \in 1..Len(chartData) : chartData[k].isForecast /\ chartData[k].Close # Null

\* A step in which a history response is stored (the first effect runs).
HistoryLoaded == Len(histInFlight') < Len(histInFlight)

\* A step in which a date changes.
DatesChanged == startDate' # startDate \/ referenceDate' # referenceDate

\* C25: the date clamps change only the date they correct.  When a history
\* is loaded, startDate changes only if it was unset or earlier than the
\* earliest history date, and referenceDate only if it was set and earlier
\* than it.  When a date is picked, startDate is left as it was or is the
\* picked date, and the reference date, if it changes together with it, was
\* earlier and becomes the start date.  No such step changes ticker, model,
\* horizon or prediction, nor history beyond the response stored, and
\* applying the clamps again to the dates reached changes nothing.
C25_ClampsChangeOnlyTheirDate ==
    [][/\ (HistoryLoaded /\ startDate' # startDate) =>
             /\ IsSet(MinDateOf(history'))
             /\ ~IsSet(startDate) \/ startDate[1] < MinDateOf(history')[1]
             /\ startDate' = MinDateOf(history')
       /\ (HistoryLoaded /\ referenceDate' # referenceDate) =>
             /\ IsSet(MinDateOf(history'))
             /\ IsSet(referenceDate)
             /\ referenceDate[1] < MinDateOf(history')[1]
             /\ referenceDate' \in {MinDateOf(history'), startDate'}
       /\ (~HistoryLoaded /\ DatesChanged) =>
             /\ history' = history
             /\ \/ startDate' = startDate
                \/ \E day \in CalendarDays : startDate' = Clicked(day, startDate)
             /\ (startDate' # startDate /\ referenceDate' # referenceDate) =>
                   /\ IsSet(referenceDate)
                   /\ referenceDate[1] < startDate'[1]
                   /\ referenceDate' = startDate'
       /\ DatesChanged =>
             /\ UNCHANGED <<ticker, model, horizon, prediction>>
             /\ ClampReferenceToStart(startDate', referenceDate') = referenceDate'
             /\ HistoryLoaded =>
                   /\ ClampToMinDate(startDate', referenceDate',
                                     MinDateOf(history')).start = startDate'
                   /\ ClampToMinDate(startDate', referenceDate',
                                     MinDateOf(history')).ref = referenceDate'
      ]_vars

\* C25 witness: a history that begins after both dates was loaded: the first
\* effect raised the start date and the reference date to its earliest date.
C25_Witness ==
    /\ lastClamp = "minDate"
    /\ Len(history) > 0
    /\ histInFlight = <<>>
    /\ ticker # "SPY"
    /\ startDate = minDate
    /\ referenceDate = minDate

====
